---- MODULE Spec2Model ----
(***************************************************************************)
(* A model of ipyrad/analysis/baba.py: the batch scheduler (batch), the    *)
(* locus encoder (_loci_to_arr, masknulls), the D-statistic engine         *)
(* (_prop_dstat, _get_boots, _get_signif_4, _get_signif_5) and the tree    *)
(* enumerator (tree2tests, test_constraint).                               *)
(*                                                                         *)
(* Several specifications share the module: SpecBatch (the scheduler),     *)
(* SpecTree (the enumerator), SpecEngine (encoder + engine) and the        *)
(* specifications of single functions.  Each pins the variables of the     *)
(* components it does not run.                                             *)
(***************************************************************************)
EXTENDS Integers, Sequences, FiniteSets, TLC

VARIABLES
    \* ---- batch() ----
    b_pc,        \* position of the coordinator inside batch()
    ipyclient,   \* TRUE: an ipyparallel client was passed; FALSE: None
    datakind,    \* what baba.data is: "loci" path, "arr" ndarray, "sims" generator
    tests,       \* baba.tests: function 0..tot-1 -> [keysok : BOOLEAN]
    idx,         \* the submission counter of the for loop
    asyncs,      \* dict job index -> handle
    keys,        \* the ready jobs of the running poll cycle, not yet handled
    resarr,      \* results rows: 0 (np.zeros) or j+1 (the statistics of job j)
    bootsarr,    \* bootstrap rows: 0 (np.zeros) or j+1 (the replicates of job j)
    nsubmitted,  \* number of apply_async calls made on the pool
    abortOn,     \* the pool object abort() was invoked on ("none" if on nothing)
    terminateOn, \* the pool object terminate() was invoked on
    err,         \* the exception batch() left with
    ret,         \* what batch() returned
    callernames, \* the names the caller has for its tests (batch has no way to take them)
    nwrites,     \* per row, how many times lines 275-276 have assigned it
    results_table, \* baba.results_table
    results_boots, \* baba.results_boots
    \* ---- tree2tests() ----
    t_pc,              \* "start" before the call, "done" after it
    newick,            \* the tree: newick[i] is the parent of node i, 0 for the root
    constraint_dict,   \* label -> set of leaf names ({} : no constraint)
    constraint_exact,  \* TRUE: exact mode, FALSE: subset mode
    t_out,             \* [err, tests]: the exception raised, or the list returned
    \* ---- dstat(): _loci_to_arr, masknulls, _get_signif_4/5 ----
    e_pc,       \* "start", "encoded" (after _loci_to_arr), "done", "error"
    loci,       \* the loci of the file: each a sequence of rows [name, seq]
    taxdict,    \* the test: label -> set of sample names
    mindict,    \* "None", an integer, or label -> integer
    nboots,     \* number of bootstrap replicates
    e_raw,      \* the tensor of the kept loci as handed to masknulls
    e_arr,      \* the frequency tensor [locus][slot][site]
    e_keep,     \* the kept mask over the input loci
    e_res,      \* the statistics returned by _get_signif_4 / _get_signif_5
    e_boots,    \* the bootstrap replicates returned with them
    e_err       \* the exception the job ended with

bvars == <<b_pc, ipyclient, datakind, tests, idx, asyncs, keys, resarr, bootsarr,
           nsubmitted, abortOn, terminateOn, err, ret, callernames, nwrites,
           results_table, results_boots>>

tvars == <<t_pc, newick, constraint_dict, constraint_exact, t_out>>

evars == <<e_pc, loci, taxdict, mindict, nboots, e_raw, e_arr, e_keep, e_res,
           e_boots, e_err>>

vars == <<bvars, tvars, evars>>

\* The state of each component while another one's specification runs.
BatchIdle ==
    /\ b_pc = "idle" /\ ipyclient = FALSE /\ datakind = "loci" /\ tests = <<>>
    /\ idx = 0 /\ asyncs = <<>> /\ keys = {} /\ resarr = <<>> /\ bootsarr = <<>>
    /\ nsubmitted = 0 /\ abortOn = "none" /\ terminateOn = "none"
    /\ err = [kind |-> "none", job |-> -1, exc |-> "none"]
    /\ ret = [index |-> <<>>, res |-> <<>>, boots |-> <<>>]
    /\ callernames = <<>>
    /\ nwrites = <<>>
    /\ results_table = [kind |-> "None"]
    /\ results_boots = [kind |-> "None"]

TreeIdle ==
    /\ t_pc = "idle" /\ newick = <<0>> /\ constraint_dict = <<>>
    /\ constraint_exact = TRUE /\ t_out = [err |-> "none", tests |-> <<>>]

EngineIdle ==
    /\ e_pc = "idle" /\ loci = <<>> /\ taxdict = <<>> /\ mindict = [kind |-> "None"]
    /\ nboots = 0 /\ e_raw = <<>> /\ e_arr = <<>> /\ e_keep = <<>> /\ e_res = <<>>
    /\ e_boots = <<>> /\ e_err = "none"

----------------------------------------------------------------------------
\* Bounds of the scheduler model.
MaxTests == 3

NoErr == [kind |-> "none", job |-> -1, exc |-> "none"]
NoRet == [index |-> <<>>, res |-> <<>>, boots |-> <<>>]

DataKinds == {"loci", "arr", "sims"}

\* The result attributes of a Baba object before run(): None on a fresh
\* object (lines 92-93), or what an earlier run() left there.
NoResults == [kind |-> "None"]
EarlierResults == [kind |-> "earlier"]

\* tot = len(taxdicts)
tot == Cardinality(DOMAIN tests)

\* all orderings of the labels 1..n (distinct names, any permutation)
Perms(n) == {p \in [1..n -> 1..n] : \A i, j \in 1..n : i # j => p[i] # p[j]}

\* The worker pool that holds the submitted jobs: the client's load-balanced
\* view, or the multiprocessing.Pool created when no client was passed.
PoolKind == IF ipyclient THEN "client" ELSE "local"

\* What a job does on its worker, dstat() -> _loci_to_arr(): a test whose keys
\* are not all allowed raises IPyradError there; any other test succeeds or
\* fails on the alignment it reads.
JobOutcomes(test) ==
    IF test.keysok
    THEN {[st |-> "ok", exc |-> "none"], [st |-> "failed", exc |-> "Exception"]}
    ELSE {[st |-> "failed", exc |-> "IPyradError"]}

\* The error raised when handle `job` is ready and not successful.  An
\* ipyparallel AsyncResult has exception(); the ApplyResult of the fallback
\* multiprocessing.Pool has ready/successful/get/wait only, so evaluating
\* asyncs[job].exception() raises AttributeError before the message is built.
FailureError(job, handle) ==
    IF ipyclient
    THEN [kind |-> "IPyradWarningExit", job |-> job, exc |-> handle.exc]
    ELSE [kind |-> "AttributeError", job |-> -1, exc |-> "none"]

\* (mutant of BatchNames) the index labels in descending order
BatchNamesReversed == [i \in 1..tot |-> tot - i]

\* names = [] ; if not names: names = range(len(taxdicts))
BatchNames == [i \in 1..tot |-> i - 1]

\* resarr.sort_index(): the index labels in ascending order
RECURSIVE SortIndex(_)
SortIndex(s) ==
    IF Len(s) = 0 THEN <<>>
    ELSE LET m == CHOOSE i \in 1..Len(s) : \A j \in 1..Len(s) : s[i] <= s[j]
             rest == [k \in 1..(Len(s) - 1) |-> IF k < m THEN s[k] ELSE s[k + 1]]
         IN <<s[m]>> \o SortIndex(rest)

\* list(index).index(x)
IndexOf(s, x) == (CHOOSE i \in 1..Len(s) : s[i] = x /\ \A j \in 1..(i - 1) : s[j] # x) - 1

\* order = [list(resarr.index).index(i) for i in names]
Order(names, sorted) == [k \in 1..Len(names) |-> IndexOf(sorted, names[k])]

\* The DataFrame rows after sort_index(): the row labelled sorted[k] is the row
\* that was built at the position of that label in names.
SortedRows(names, sorted, rows) ==
    [k \in 1..Len(sorted) |-> rows[IndexOf(names, sorted[k]) + 1]]

\* bootsarr[order]
Reindex(order, rows) == [k \in 1..Len(order) |-> rows[order[k] + 1]]

----------------------------------------------------------------------------
BatchInit ==
    /\ b_pc = "start"
    /\ ipyclient \in BOOLEAN
    /\ datakind \in DataKinds
    /\ \E n \in 0..MaxTests :
         /\ tests \in [0..(n - 1) -> [keysok : BOOLEAN]]
         /\ callernames \in Perms(n)
    /\ idx = 0
    /\ asyncs = <<>>
    /\ keys = {}
    /\ resarr = <<>>
    /\ bootsarr = <<>>
    /\ nsubmitted = 0
    /\ abortOn = "none"
    /\ terminateOn = "none"
    /\ err = NoErr
    /\ ret = NoRet
    /\ nwrites = <<>>
    /\ results_table = NoResults
    /\ results_boots = NoResults
    /\ TreeIdle
    /\ EngineIdle

\* Lines 201-242: parse args, allocate the result arrays, pick the pool.
\* os.path.realpath() of anything that is not a path string raises.
Start ==
    /\ b_pc = "start"
    /\ IF datakind = "arr"
       THEN /\ b_pc' = "raised"
            /\ err' = [kind |-> "AttributeError", job |-> -1, exc |-> "realpath"]
            /\ UNCHANGED <<resarr, bootsarr, nwrites>>
       ELSE /\ b_pc' = "submit"
            /\ resarr' = [i \in 0..(tot - 1) |-> 0]
            /\ bootsarr' = [i \in 0..(tot - 1) |-> 0]
            /\ nwrites' = [i \in 0..(tot - 1) |-> 0]
            /\ err' = err
    /\ UNCHANGED <<ipyclient, datakind, tests, idx, asyncs, keys, nsubmitted,
                   abortOn, terminateOn, ret, callernames, results_table,
                   results_boots>>
    /\ UNCHANGED <<tvars, evars>>

\* Lines 250-260: one pass of the submission loop.  With a generator the
\* list made of it is handed to _msp_to_arr, whose first statement reads
\* Sim.names: it raises before apply_async is reached.
Submit ==
    /\ b_pc = "submit"
    /\ idx < tot
    /\ IF datakind = "sims"
       THEN /\ b_pc' = "raised"
            /\ err' = [kind |-> "AttributeError", job |-> -1, exc |-> "_msp_to_arr"]
            /\ UNCHANGED <<idx, asyncs, nsubmitted>>
       ELSE /\ asyncs' = [i \in (DOMAIN asyncs) \cup {idx} |->
                            IF i = idx
                            THEN [st |-> "running", exc |-> "none", job |-> idx]
                            ELSE asyncs[i]]
            /\ nsubmitted' = nsubmitted + 1
            /\ idx' = idx + 1
            /\ UNCHANGED <<b_pc, err>>
    /\ UNCHANGED <<ipyclient, datakind, tests, keys, resarr, bootsarr,
                   abortOn, terminateOn, ret, callernames, nwrites,
                   results_table, results_boots>>
    /\ UNCHANGED <<tvars, evars>>

\* Line 263: the loop over the tests is done, the try block is entered.
EnterPoll ==
    /\ b_pc = "submit"
    /\ idx = tot
    /\ b_pc' = "poll"
    /\ UNCHANGED <<ipyclient, datakind, tests, idx, asyncs, keys, resarr, bootsarr,
                   nsubmitted, abortOn, terminateOn, err, ret, callernames,
                   nwrites, results_table, results_boots>>
    /\ UNCHANGED <<tvars, evars>>

\* A worker finishes job i: its handle becomes ready.
JobFinish(i) ==
    /\ i \in DOMAIN asyncs
    /\ asyncs[i].st = "running"
    /\ \E o \in JobOutcomes(tests[i]) :
         asyncs' = [asyncs EXCEPT ![i].st = o.st, ![i].exc = o.exc]
    /\ UNCHANGED <<b_pc, ipyclient, datakind, tests, idx, keys, resarr, bootsarr,
                   nsubmitted, abortOn, terminateOn, err, ret, callernames,
                   nwrites, results_table, results_boots>>
    /\ UNCHANGED <<tvars, evars>>

\* Line 265: keys = [i for (i, j) in asyncs.items() if j.ready()]
PollScan ==
    /\ b_pc = "poll"
    /\ keys' = {i \in DOMAIN asyncs : asyncs[i].st # "running"}
    /\ b_pc' = "handle"
    /\ UNCHANGED <<ipyclient, datakind, tests, idx, asyncs, resarr, bootsarr,
                   nsubmitted, abortOn, terminateOn, err, ret, callernames,
                   nwrites, results_table, results_boots>>
    /\ UNCHANGED <<tvars, evars>>

\* (mutant of PollHandle) the handle of a finished job is not deleted
PollHandleKeep(job) ==
    /\ b_pc = "handle"
    /\ job \in keys
    /\ IF asyncs[job].st # "ok"
       THEN /\ b_pc' = "raised"
            /\ err' = FailureError(job, asyncs[job])
            /\ UNCHANGED <<asyncs, keys, resarr, bootsarr, nwrites>>
       ELSE /\ resarr' = [resarr EXCEPT ![job] = asyncs[job].job + 1]
            /\ bootsarr' = [bootsarr EXCEPT ![job] = asyncs[job].job + 1]
            /\ nwrites' = [nwrites EXCEPT ![job] = @ + 1]
            /\ keys' = keys \ {job}
            /\ UNCHANGED <<b_pc, err, asyncs>>
    /\ UNCHANGED <<ipyclient, datakind, tests, idx, nsubmitted, abortOn,
                   terminateOn, ret, callernames, results_table, results_boots>>
    /\ UNCHANGED <<tvars, evars>>

\* Lines 267-277: one pass of `for job in keys` (dict order: any order).  The
\* row of a successful job takes what its handle's get() returns.
PollHandle(job) ==
    /\ b_pc = "handle"
    /\ job \in keys
    /\ IF asyncs[job].st # "ok"
       THEN /\ b_pc' = "raised"
            /\ err' = FailureError(job, asyncs[job])
            /\ UNCHANGED <<asyncs, keys, resarr, bootsarr, nwrites>>
       ELSE /\ resarr' = [resarr EXCEPT ![job] = asyncs[job].job + 1]
            /\ bootsarr' = [bootsarr EXCEPT ![job] = asyncs[job].job + 1]
            /\ nwrites' = [nwrites EXCEPT ![job] = @ + 1]
            /\ asyncs' = [i \in (DOMAIN asyncs) \ {job} |-> asyncs[i]]
            /\ keys' = keys \ {job}
            /\ UNCHANGED <<b_pc, err>>
    /\ UNCHANGED <<ipyclient, datakind, tests, idx, nsubmitted, abortOn,
                   terminateOn, ret, callernames, results_table, results_boots>>
    /\ UNCHANGED <<tvars, evars>>

\* (mutant of PollEnd) the loop is left after the first cycle that finds
\* nothing more to handle
PollEndEarly ==
    /\ b_pc = "handle"
    /\ keys = {}
    /\ b_pc' = "finish"
    /\ UNCHANGED <<ipyclient, datakind, tests, idx, asyncs, keys, resarr, bootsarr,
                   nsubmitted, abortOn, terminateOn, err, ret, callernames,
                   nwrites, results_table, results_boots>>
    /\ UNCHANGED <<tvars, evars>>

\* Lines 279-286: count finished, progress bar, sleep, leave when no handle is left.
PollEnd ==
    /\ b_pc = "handle"
    /\ keys = {}
    /\ b_pc' = IF DOMAIN asyncs = {} THEN "finish" ELSE "poll"
    /\ UNCHANGED <<ipyclient, datakind, tests, idx, asyncs, keys, resarr, bootsarr,
                   nsubmitted, abortOn, terminateOn, err, ret, callernames,
                   nwrites, results_table, results_boots>>
    /\ UNCHANGED <<tvars, evars>>

\* (mutant of Interrupt) the handler hands the rows copied so far to the object
InterruptKeepPartial ==
    /\ b_pc \in {"poll", "handle"}
    /\ abortOn' = IF ipyclient THEN "client" ELSE "none"
    /\ terminateOn' = IF ipyclient THEN "client" ELSE "none"
    /\ err' = [kind |-> "KeyboardInterrupt", job |-> -1, exc |-> "none"]
    /\ b_pc' = "raised"
    /\ results_table' = [kind |-> "table", index |-> BatchNames,
                         rows |-> [k \in 1..tot |-> resarr[k - 1]]]
    /\ results_boots' = [kind |-> "boots", rows |-> [k \in 1..tot |-> bootsarr[k - 1]]]
    /\ UNCHANGED <<ipyclient, datakind, tests, idx, asyncs, keys, resarr, bootsarr,
                   nsubmitted, ret, callernames, nwrites>>
    /\ UNCHANGED <<tvars, evars>>

\* Lines 288-298: KeyboardInterrupt inside the try block.  abort() and
\* terminate() are called on `ipyclient`, which is None when the local pool is
\* in use: the AttributeError is swallowed and nothing is called on the pool.
Interrupt ==
    /\ b_pc \in {"poll", "handle"}
    /\ abortOn' = IF ipyclient THEN "client" ELSE "none"
    /\ terminateOn' = IF ipyclient THEN "client" ELSE "none"
    /\ err' = [kind |-> "KeyboardInterrupt", job |-> -1, exc |-> "none"]
    /\ b_pc' = "raised"
    /\ UNCHANGED <<ipyclient, datakind, tests, idx, asyncs, keys, resarr, bootsarr,
                   nsubmitted, ret, callernames, nwrites, results_table,
                   results_boots>>
    /\ UNCHANGED <<tvars, evars>>

\* Lines 300-311: DataFrame, sort_index, reorder bootsarr, return.
Finish ==
    /\ b_pc = "finish"
    /\ LET names == BatchNames
           sorted == SortIndex(names)
           order == Order(names, sorted)
           rows == [k \in 1..tot |-> resarr[k - 1]]
           brows == [k \in 1..tot |-> bootsarr[k - 1]]
       IN ret' = [index |-> sorted,
                  res |-> SortedRows(names, sorted, rows),
                  boots |-> Reindex(order, brows)]
    /\ b_pc' = "returned"
    /\ UNCHANGED <<ipyclient, datakind, tests, idx, asyncs, keys, resarr, bootsarr,
                   nsubmitted, abortOn, terminateOn, err, callernames, nwrites,
                   results_table, results_boots>>
    /\ UNCHANGED <<tvars, evars>>

\* Baba.run(), line 122: self.results_table, self.results_boots = batch(...)
\* once batch() has returned; an exception of batch() passes through run().
RunAssign ==
    /\ b_pc = "returned"
    /\ results_table' = [kind |-> "table", index |-> ret.index, rows |-> ret.res]
    /\ results_boots' = [kind |-> "boots", rows |-> ret.boots]
    /\ b_pc' = "assigned"
    /\ UNCHANGED <<ipyclient, datakind, tests, idx, asyncs, keys, resarr, bootsarr,
                   nsubmitted, abortOn, terminateOn, err, ret, callernames,
                   nwrites>>
    /\ UNCHANGED <<tvars, evars>>

BatchNext ==
    \/ Start
    \/ Submit
    \/ EnterPoll
    \/ \E i \in 0..(MaxTests - 1) : JobFinish(i)
    \/ PollScan
    \/ \E job \in 0..(MaxTests - 1) : PollHandle(job)
    \/ PollEnd
    \/ Interrupt
    \/ Finish
    \/ RunAssign

SpecBatch == BatchInit /\ [][BatchNext]_vars

\* Baba.run() on a fresh object or on one that has run before; the caller's
\* names for the tests play no part in it and are taken in submission order.
RunInit ==
    /\ b_pc = "start"
    /\ ipyclient \in BOOLEAN
    /\ datakind \in DataKinds
    /\ \E n \in 0..MaxTests :
         /\ tests \in [0..(n - 1) -> [keysok : BOOLEAN]]
         /\ callernames = [i \in 1..n |-> i]
    /\ idx = 0
    /\ asyncs = <<>>
    /\ keys = {}
    /\ resarr = <<>>
    /\ bootsarr = <<>>
    /\ nsubmitted = 0
    /\ abortOn = "none"
    /\ terminateOn = "none"
    /\ err = NoErr
    /\ ret = NoRet
    /\ nwrites = <<>>
    /\ \E before \in {NoResults, EarlierResults} :
         /\ results_table = before
         /\ results_boots = before
    /\ TreeIdle
    /\ EngineIdle

SpecRun == RunInit /\ [][BatchNext]_vars

\* The steps of the caller's thread: run() and batch() are sequential code
\* that keeps running (the poll loop sleeps 0.1 s and scans again).
Coordinator ==
    \/ Start
    \/ Submit
    \/ EnterPoll
    \/ PollScan
    \/ \E job \in 0..(MaxTests - 1) : PollHandle(job)
    \/ PollEnd
    \/ Finish
    \/ RunAssign

\* SpecRun with a caller that keeps running and workers that finish every job
\* they were given; an interrupt may or may not come.
SpecRunFair ==
    /\ SpecRun
    /\ WF_vars(Coordinator)
    /\ \A i \in 0..(MaxTests - 1) : WF_vars(JobFinish(i))

----------------------------------------------------------------------------
\* tree2tests() and test_constraint().
\*
\* A tree is the sequence of its nodes' parents, nodes numbered in preorder
\* (node 1 is the root, its parent is 0); the children of a node are ordered
\* as in the newick string.  A leaf's name is its node number.

\* Bounds of the enumerator model.
MaxNodes == 9

Labels == {"p1", "p2", "p3", "p4"}

\* node i and its ancestors
RECURSIVE AncestorsOrSelf(_, _)
AncestorsOrSelf(t, i) == IF i = 0 THEN {} ELSE {i} \cup AncestorsOrSelf(t, t[i])

\* every ordered rooted tree with n nodes, once
RECURSIVE PreorderTrees(_)
PreorderTrees(n) ==
    IF n = 1 THEN {<<0>>}
    ELSE UNION {{Append(t, p) : p \in AncestorsOrSelf(t, Len(t))} : t \in PreorderTrees(n - 1)}

\* ascending sequence of a set of node numbers
RECURSIVE SetToSeq(_)
SetToSeq(S) ==
    IF S = {} THEN <<>>
    ELSE LET m == CHOOSE x \in S : \A y \in S : x <= y
         IN <<m>> \o SetToSeq(S \ {m})

\* node.children
children(t, n) == SetToSeq({i \in 1..Len(t) : t[i] = n})

\* the trees a newick string of a phylogeny gives: no node with one child
NoUnary(t) == \A n \in 1..Len(t) : Len(children(t, n)) # 1
IsBinary(t) == \A n \in 1..Len(t) : Len(children(t, n)) \in {0, 2}

\* (mutant of traverse) a traversal that visits the start node twice
RECURSIVE LevelOrder(_, _)
TraverseRevisit(t, n) == <<n>> \o LevelOrder(t, <<n>>)

\* node.traverse(): level order, the node itself first
LevelOrder(t, queue) ==
    IF queue = <<>> THEN <<>>
    ELSE <<Head(queue)>> \o LevelOrder(t, Tail(queue) \o children(t, Head(queue)))

traverse(t, n) == LevelOrder(t, <<n>>)

\* node.get_sisters(): the other children of the node's parent
get_sisters(t, n) ==
    IF t[n] = 0 THEN <<>>
    ELSE SelectSeq(children(t, t[n]), LAMBDA c : c # n)

\* node.get_leaf_names(): the leaves below the node, left to right
RECURSIVE get_leaf_names(_, _)
RECURSIVE LeafNamesOfAll(_, _)
LeafNamesOfAll(t, ns) ==
    IF ns = <<>> THEN <<>>
    ELSE get_leaf_names(t, Head(ns)) \o LeafNamesOfAll(t, Tail(ns))

get_leaf_names(t, n) ==
    IF children(t, n) = <<>> THEN <<n>> ELSE LeafNamesOfAll(t, children(t, n))

ToSet(s) == {s[i] : i \in 1..Len(s)}

\* (mutant of test_constraint) exact mode with the condition of the
\* commented-out line 531: every constrained name is under the node
test_constraint_superset(t, node, cdict, tip, exact) ==
    LET names == ToSet(get_leaf_names(t, node))
        const == cdict[tip]
    IN IF const # {}
       THEN IF exact
            THEN Cardinality(names \cap const) = Cardinality(const)
            ELSE Cardinality(names \cap const) = Cardinality(names)
       ELSE TRUE

\* test_constraint(node, cdict, tip, exact)
test_constraint(t, node, cdict, tip, exact) ==
    LET names == ToSet(get_leaf_names(t, node))
        const == cdict[tip]
    IN IF const # {}
       THEN IF exact
            THEN names = const
            ELSE Cardinality(names \cap const) = Cardinality(names)
       ELSE TRUE

\* The result of a loop body or of a loop: the exception that ended it, or the
\* tests it appended.
Emitted(out) == [err |-> "none", tests |-> out]
Raised(e) == [err |-> e, tests |-> <<>>]

\* run the passes of a loop in order; the first exception ends the call
RECURSIVE Chain(_)
Chain(rs) ==
    IF rs = <<>> THEN Emitted(<<>>)
    ELSE IF Head(rs).err # "none" THEN Raised(Head(rs).err)
    ELSE LET r == Chain(Tail(rs))
         IN IF r.err # "none" THEN r ELSE Emitted(Head(rs).tests \o r.tests)

\* lines 514-521
P1Loop(t, cdict, exact, onode, p3node, p2node, p1parent) ==
    LET p1nodes == traverse(t, p1parent)
    IN Chain([i \in 1..Len(p1nodes) |->
        IF test_constraint(t, p1nodes[i], cdict, "p1", exact)
        THEN Emitted(<<[p4 |-> get_leaf_names(t, onode),
                        p3 |-> get_leaf_names(t, p3node),
                        p2 |-> get_leaf_names(t, p2node),
                        p1 |-> get_leaf_names(t, p1nodes[i])]>>)
        ELSE Emitted(<<>>)])

\* lines 510-513: `p1parent, p2parent = p12parent.children` unpacks exactly two
P12Split(t, cdict, exact, onode, p3node, p12parent) ==
    LET ch == children(t, p12parent)
        p2nodes == traverse(t, ch[2])
    IN IF ch = <<>> THEN Emitted(<<>>)
       ELSE IF Len(ch) # 2 THEN Raised("ValueError")
       ELSE Chain([i \in 1..Len(p2nodes) |->
                IF test_constraint(t, p2nodes[i], cdict, "p2", exact)
                THEN P1Loop(t, cdict, exact, onode, p3node, p2nodes[i], ch[1])
                ELSE Emitted(<<>>)])

\* lines 508-509: the p3node loop under one p3parent
P3NodeLoop(t, cdict, exact, onode, p3parent, p12parent) ==
    LET p3nodes == traverse(t, p3parent)
    IN Chain([i \in 1..Len(p3nodes) |->
        IF test_constraint(t, p3nodes[i], cdict, "p3", exact)
        THEN P12Split(t, cdict, exact, onode, p3nodes[i], p12parent)
        ELSE Emitted(<<>>)])

\* lines 505-507: get_sisters()[0] of an only child raises IndexError
P3Loop(t, cdict, exact, onode, p123parent) ==
    LET p3parents == children(t, p123parent)
    IN Chain([i \in 1..Len(p3parents) |->
        IF get_sisters(t, p3parents[i]) = <<>> THEN Raised("IndexError")
        ELSE P3NodeLoop(t, cdict, exact, onode, p3parents[i],
                        get_sisters(t, p3parents[i])[1])])

\* lines 499-503
OnodeLoop(t, cdict, exact, oparent) ==
    LET onodes == traverse(t, oparent)
    IN Chain([i \in 1..Len(onodes) |->
        IF test_constraint(t, onodes[i], cdict, "p4", exact)
        THEN IF get_sisters(t, oparent) = <<>> THEN Raised("IndexError")
             ELSE P3Loop(t, cdict, exact, onodes[i], get_sisters(t, oparent)[1])
        ELSE Emitted(<<>>)])

\* lines 497-498
OutgroupLoop(t, cdict, exact, topnode) ==
    LET oparents == children(t, topnode)
    IN Chain([i \in 1..Len(oparents) |-> OnodeLoop(t, cdict, exact, oparents[i])])

\* cdict = {"p1":[], "p2":[], "p3":[], "p4":[]}; cdict.update(constraint_dict)
Cdict(cd) == [l \in Labels |-> IF l \in DOMAIN cd THEN cd[l] ELSE {}]

\* tree2tests(newick, constraint_dict, constraint_exact)
tree2tests(t, cd, exact) ==
    LET topnodes == traverse(t, 1)
    IN Chain([i \in 1..Len(topnodes) |-> OutgroupLoop(t, Cdict(cd), exact, topnodes[i])])

\* the constraint dicts of the model: none, or one label held to the leaf set
\* of one node of the tree
ConstraintSets(t) == {ToSet(get_leaf_names(t, n)) : n \in 1..Len(t)}
ConstraintDicts(t) ==
    {<<>>} \cup {[l \in {lab} |-> c] : lab \in Labels, c \in ConstraintSets(t)}

TreeInit ==
    /\ t_pc = "start"
    /\ \E n \in 1..MaxNodes :
         /\ newick \in {t \in PreorderTrees(n) : NoUnary(t)}
    /\ constraint_dict \in ConstraintDicts(newick)
    /\ constraint_exact \in BOOLEAN
    /\ t_out = Emitted(<<>>)
    /\ BatchIdle
    /\ EngineIdle

\* Baba.generate_tests_from_tree() -> tree2tests()
Tree2Tests ==
    /\ t_pc = "start"
    /\ t_out' = tree2tests(newick, constraint_dict, constraint_exact)
    /\ t_pc' = "done"
    /\ UNCHANGED <<newick, constraint_dict, constraint_exact>>
    /\ UNCHANGED <<bvars, evars>>

TreeNext == Tree2Tests

SpecTree == TreeInit /\ [][TreeNext]_vars

----------------------------------------------------------------------------
\* dstat(): the encoder (_loci_to_arr, _reffreq2, masknulls) and the engine
\* (_prop_dstat, _get_boots, _get_signif_4, _get_signif_5).
\*
\* Floating-point values are exact rationals [n, d] in lowest terms, d > 0.

RECURSIVE GCD(_, _)
GCD(a, b) == IF b = 0 THEN a ELSE GCD(b, a % b)

Abs(x) == IF x < 0 THEN -x ELSE x

Rat(n, d) ==
    LET g == GCD(Abs(n), Abs(d))
        sgn == IF d < 0 THEN -1 ELSE 1
    IN [n |-> sgn * (n \div g), d |-> sgn * (d \div g)]

RZero == [n |-> 0, d |-> 1]
ROne == [n |-> 1, d |-> 1]

\* sums over the least common denominator, products reduced crosswise first,
\* so that no intermediate number is larger than it has to be
RAdd(x, y) ==
    LET g == GCD(x.d, y.d)
    IN Rat(x.n * (y.d \div g) + y.n * (x.d \div g), (x.d \div g) * y.d)

RNeg(x) == [n |-> -x.n, d |-> x.d]
RSub(x, y) == RAdd(x, RNeg(y))

RMul(x, y) ==
    LET a == Rat(x.n, y.d)
        b == Rat(y.n, x.d)
    IN Rat(a.n * b.n, a.d * b.d)

RDiv(x, y) == RMul(x, Rat(y.d, y.n))
RAbs(x) == [n |-> Abs(x.n), d |-> x.d]

RECURSIVE RSum(_)
RSum(xs) == IF xs = <<>> THEN RZero ELSE RAdd(Head(xs), RSum(Tail(xs)))

\* the sentinel of a population with no usable data at a site (line 597)
Sentinel == [n |-> 9, d |-> 1]

\* Sequence characters as their uint8 codes (seqs.view(np.uint8)).
BaseA == 65
BaseT == 84
BaseW == 87
BaseN == 78

\* GETCONS2 (ipyrad.assemble.write_outfiles): each ambiguity code and its two
\* resolutions; N and - resolve to the missing value 9.
GETCONS2 ==
    << <<82, 71, 65>>, <<75, 71, 84>>, <<83, 71, 67>>, <<89, 84, 67>>,
       <<87, 84, 65>>, <<77, 67, 65>>, <<78, 9, 9>>, <<45, 9, 9>> >>

\* reftrick(refseq, GETCONS2)[:, 0] (ipyrad.assemble.write_outfiles): per site
\* the most common base of the outgroup rows; an ambiguity code counts once
\* for each of its two bases, N and - count for nothing, argmax takes the
\* lowest code among equals and 0 when nothing is counted.
reftrick(refseq, consdict) ==
    LET nsites == IF refseq = <<>> THEN 0 ELSE Len(refseq[1])
        Row(base) == {k \in 1..Len(consdict) : consdict[k][1] = base}
        Hits(site, c) ==
            Cardinality({r \in 1..Len(refseq) :
                LET base == refseq[r][site]
                IN IF base \in {78, 45} THEN FALSE
                   ELSE IF Row(base) = {} THEN base = c
                   ELSE \E k \in Row(base) : consdict[k][2] = c \/ consdict[k][3] = c})
        Codes == {65, 67, 71, 84}
        Call(site) ==
            IF \A c \in Codes : Hits(site, c) = 0 THEN 0
            ELSE CHOOSE c \in Codes :
                   /\ \A o \in Codes : Hits(site, o) <= Hits(site, c)
                   /\ \A o \in Codes : (Hits(site, o) = Hits(site, c)) => c <= o
    IN [site \in 1..nsites |-> Call(site)]

\* lines 572-587: the two resolved copies of one base
Resolve(base, consdict) ==
    LET who == {k \in 1..Len(consdict) : consdict[k][1] = base}
    IN IF who = {} THEN <<base, base>>
       ELSE LET k == CHOOSE x \in who : \A y \in who : x <= y
            IN <<consdict[k][2], consdict[k][3]>>

\* _reffreq2(ancestral, iseq, consdict): lines 566-598
_reffreq2(ancestral, iseq, consdict) ==
    LET nsites == IF iseq = <<>> THEN 0 ELSE Len(iseq[1])
        \* the resolved copies at a site that are not 9, as (row, copy) places
        Reduced(i) == {rc \in (1..Len(iseq)) \X {1, 2} :
                         Resolve(iseq[rc[1]][i], consdict)[rc[2]] # 9}
        Counts(i) == Cardinality({rc \in Reduced(i) :
                         Resolve(iseq[rc[1]][i], consdict)[rc[2]] # ancestral[i]})
    IN [i \in 1..nsites |->
          IF Reduced(i) # {} THEN Rat(Counts(i), Cardinality(Reduced(i)))
          ELSE Sentinel]

\* 8-bit signed storage (nvarr = np.zeros(..., dtype=np.int8))
Int8(x) == ((x + 128) % 256) - 128

Max(S) == CHOOSE x \in S : \A y \in S : y <= x

\* The informative sites of one locus, in order (lines 552-560): no slot is
\* the sentinel and some slot before the last differs from slot 0.
InformativeSites(locarr) ==
    LET nslots == Len(locarr)
        nsites == Len(locarr[1])
    IN SelectSeq([i \in 1..nsites |-> i],
                 LAMBDA site :
                    /\ \A k \in 1..nslots : locarr[k][site] # Sentinel
                    /\ \E k \in 1..(nslots - 1) : locarr[k][site] # locarr[1][site])

\* trimarr[loc] cut to `width` sites: the informative columns packed to the
\* left, zeros to the right
TrimLocus(locarr, width) ==
    LET inf == InformativeSites(locarr)
    IN [k \in 1..Len(locarr) |->
          [j \in 1..width |-> IF j <= Len(inf) THEN locarr[k][inf[j]] ELSE RZero]]

\* masknulls(arr): lines 546-562, `width` the site dimension of arr.  The
\* outcomes it can have: with no locus, nvarr.max() is the maximum of an empty
\* array, which raises ValueError or, in builds whose compiled max() does not
\* check the size, yields an arbitrary number (the tensor then has no locus
\* whatever the number is).
masknulls(arr, width) ==
    IF arr = <<>>
    THEN {[err |-> "ValueError", arr |-> <<>>], [err |-> "none", arr |-> <<>>]}
    ELSE LET nvarr == [loc \in 1..Len(arr) |-> Int8(Len(InformativeSites(arr[loc])))]
             top == Max({nvarr[loc] : loc \in 1..Len(arr)})
             \* trimarr[:, :, :top] with python slice semantics
             cut == IF top >= 0 THEN top ELSE IF width + top > 0 THEN width + top ELSE 0
         IN {[err |-> "none",
              arr |-> [loc \in 1..Len(arr) |-> TrimLocus(arr[loc], cut)]]}

\* keys = sorted(taxdict.keys()): the labels p1..p5 in order
AllLabels == <<"p1", "p2", "p3", "p4", "p5">>
SortedKeys(td) == SelectSeq(AllLabels, LAMBDA l : l \in DOMAIN td)

\* lines 375-379: the coverage requirement per label
Mindict(md, td) ==
    IF md.kind = "None" \/ (md.kind = "int" /\ md.n = 0)
    THEN [l \in DOMAIN td |-> 1]
    ELSE IF md.kind = "int" THEN [l \in DOMAIN td |-> md.n]
    ELSE md.map

\* names = [i.split()[0] for i in lines]
RowNames(locus) == {locus[r].name : r \in 1..Len(locus)}

\* lines 400-404: all(covs)
Covered(locus, td, md) ==
    \A tax \in DOMAIN td :
        Cardinality({j \in td[tax] : j \in RowNames(locus)}) >= Mindict(md, td)[tax]

\* seqs[np.where([i in names_of_pop for i in names])[0]]
RowsOf(locus, pop) ==
    LET sel == SelectSeq(locus, LAMBDA r : r.name \in pop)
    IN [k \in 1..Len(sel) |-> sel[k].seq]

\* (mutant of EncodeLocus) the p4 mask is taken after p3 has been masked
EncodeLocusSequential(locus, td) ==
    LET ks == SortedKeys(td)
        outg == ks[Len(ks)]
        refseq == RowsOf(locus, td[outg])
        ancestral == reftrick(refseq, GETCONS2)
        Freq(rows) == _reffreq2(ancestral, rows, GETCONS2)
    IN IF Len(ks) = 4
       THEN [k \in 1..4 |-> Freq(RowsOf(locus, td[ks[k]]))]
       ELSE LET xseq == Freq(RowsOf(locus, td["p3"]))
                yseq == Freq(RowsOf(locus, td["p4"]))
                nsites == Len(xseq)
                xmasked == [i \in 1..nsites |-> IF yseq[i] # RZero THEN RZero ELSE xseq[i]]
            IN << Freq(RowsOf(locus, td["p1"])),
                  Freq(RowsOf(locus, td["p2"])),
                  xmasked,
                  [i \in 1..nsites |-> IF xmasked[i] # RZero THEN RZero ELSE yseq[i]],
                  Freq(RowsOf(locus, td["p3"]) \o RowsOf(locus, td["p4"])),
                  Freq(refseq) >>

\* lines 407-466: the slots of one kept locus
EncodeLocus(locus, td) ==
    LET ks == SortedKeys(td)
        outg == ks[Len(ks)]
        refseq == RowsOf(locus, td[outg])
        ancestral == reftrick(refseq, GETCONS2)
        Freq(rows) == _reffreq2(ancestral, rows, GETCONS2)
    IN IF Len(ks) = 4
       THEN [k \in 1..4 |-> Freq(RowsOf(locus, td[ks[k]]))]
       ELSE LET xseq == Freq(RowsOf(locus, td["p3"]))
                yseq == Freq(RowsOf(locus, td["p4"]))
                nsites == Len(xseq)
            IN << Freq(RowsOf(locus, td["p1"])),
                  Freq(RowsOf(locus, td["p2"])),
                  [i \in 1..nsites |-> IF yseq[i] # RZero THEN RZero ELSE xseq[i]],
                  [i \in 1..nsites |-> IF xseq[i] # RZero THEN RZero ELSE yseq[i]],
                  Freq(RowsOf(locus, td["p3"]) \o RowsOf(locus, td["p4"])),
                  Freq(refseq) >>

\* arr = np.zeros((nloci, 4, 300)): the site dimension of the buffer
BufferWidth == 300

\* the site dimension the model keeps of the 300-wide buffer: the longest
\* locus (the columns to its right are zero in every slot, never informative)
SiteWidth(ls) ==
    Max({0} \cup UNION {{Len(ls[l][r].seq) : r \in 1..Len(ls[l])} : l \in 1..Len(ls)})

PadTo(row, width) == [j \in 1..width |-> IF j <= Len(row) THEN row[j] ELSE RZero]

\* _loci_to_arr(locifile, taxdict, mindict): lines 358-475, the outcomes
loci_to_arr(ls, td, md) ==
    LET keep == [l \in 1..Len(ls) |-> Covered(ls[l], td, md)]
        width == SiteWidth(ls)
        kept == SelectSeq([l \in 1..Len(ls) |-> l], LAMBDA l : keep[l])
        full == [k \in 1..Len(kept) |->
                   LET enc == EncodeLocus(ls[kept[k]], td)
                   IN [slot \in 1..Len(enc) |-> PadTo(enc[slot], width)]]
    IN {[err |-> m.err, arr |-> m.arr, keep |-> keep, raw |-> full] :
            m \in masknulls(full, BufferWidth)}

\* line 606, at one site of one locus
AbbaAt(locarr, site) ==
    RMul(RMul(RSub(ROne, locarr[1][site]), locarr[2][site]),
         RMul(locarr[3][site], RSub(ROne, locarr[4][site])))

\* (mutant of BabaAt) the outgroup factor (1 - p4) left out
BabaAtNoOutgroup(locarr, site) ==
    RMul(RMul(locarr[1][site], RSub(ROne, locarr[2][site])), locarr[3][site])

\* line 607, at one site of one locus
BabaAt(locarr, site) ==
    RMul(RMul(locarr[1][site], RSub(ROne, locarr[2][site])),
         RMul(locarr[3][site], RSub(ROne, locarr[4][site])))

\* abba.sum(), baba.sum(): over every locus and site
AbbaSum(arr) ==
    RSum([loc \in 1..Len(arr) |->
            RSum([site \in 1..Len(arr[loc][1]) |-> AbbaAt(arr[loc], site)])])

BabaSum(arr) ==
    RSum([loc \in 1..Len(arr) |->
            RSum([site \in 1..Len(arr[loc][1]) |-> BabaAt(arr[loc], site)])])

\* _prop_dstat(arr): lines 602-618, returns <<abba.sum(), baba.sum(), dstat>>
_prop_dstat(arr) ==
    LET abba == AbbaSum(arr)
        baba == BabaSum(arr)
        top == RSub(abba, baba)
        sbot == RAdd(abba, baba)
        dstat == IF sbot # RZero THEN RDiv(top, sbot) ELSE RZero
    IN <<abba, baba, dstat>>

\* _get_boots(arr, nboots): lines 622-639, every array of replicates the
\* random resampling can give.  With no locus, randint(0, 0, 0) either
\* raises ValueError (low >= high) or draws nothing, by build.
_get_boots(arr, nb) ==
    LET nloci == Len(arr)
        lidxs == [1..nloci -> 1..nloci]
        dstats == {_prop_dstat([k \in 1..nloci |-> arr[lidx[k]]])[3] : lidx \in lidxs}
        drawn == {[err |-> "none", boots |-> boots] : boots \in [1..nb -> dstats]}
    IN IF nloci = 0
       THEN drawn \cup {[err |-> "ValueError", boots |-> <<>>]}
       ELSE drawn

\* boots.mean()
Mean(boots) == RDiv(RSum(boots), Rat(Len(boots), 1))

\* boots.std() is the square root of this number; the model keeps the
\* standard deviation as Sqrt(variance), zero exactly when the variance is
Variance(boots) ==
    LET e == Mean(boots)
    IN RDiv(RSum([k \in 1..Len(boots) |->
                    RMul(RSub(boots[k], e), RSub(boots[k], e))]),
            Rat(Len(boots), 1))

Sqrt(v) == [sqrt_of |-> v]
Std(boots) == Sqrt(Variance(boots))

\* x / s for a standard deviation s # 0
Over(x, s) == [num |-> x, den |-> s]
NaN == [nan |-> TRUE]

\* _get_signif_4(arr, nboots): lines 643-656
_get_signif_4(arr, nb) ==
    {IF g.err # "none" THEN [err |-> g.err, stats |-> <<>>, boots |-> <<>>]
     ELSE LET p == _prop_dstat(arr)
              abba == p[1]
              baba == p[2]
              dstat == p[3]
              e == Mean(g.boots)
              s == Std(g.boots)
              z == IF s # Sqrt(RZero) THEN Over(RAbs(e), s) ELSE RZero
          IN [err |-> "none",
              stats |-> <<dstat, e, s, z, abba, baba, Rat(Len(arr), 1)>>,
              boots |-> g.boots]
     : g \in _get_boots(arr, nb)}

\* tarr = arr[:, [0, 1, acol, 5], :] with acol counted from 0 (line 672-673)
Rows4(arr, acol) ==
    [loc \in 1..Len(arr) |->
        <<arr[loc][1], arr[loc][2], arr[loc][acol + 1], arr[loc][6]>>]

\* one pass of the loop of _get_signif_5 (lines 671-686)
Signif5Row(arr, acol, nb) ==
    LET tarr == Rows4(arr, acol)
    IN {IF g.err # "none" THEN [err |-> g.err, stats |-> <<>>, boots |-> <<>>]
        ELSE LET p == _prop_dstat(tarr)
                 abxa == p[1]
                 baxa == p[2]
                 dstat == p[3]
                 e == Mean(g.boots)
                 s == Std(g.boots)
                 z == IF s # Sqrt(RZero) THEN Over(RAbs(dstat), s) ELSE NaN
             IN [err |-> "none",
                 stats |-> <<dstat, e, s, abxa, baxa, z>>,
                 boots |-> g.boots]
        : g \in _get_boots(tarr, nb)}

\* _get_signif_5(arr, nboots): lines 660-688, the first failing pass ends it
_get_signif_5(arr, nb) ==
    {IF r2.err # "none" THEN [err |-> r2.err, stats |-> <<>>, boots |-> <<>>]
     ELSE IF r3.err # "none" THEN [err |-> r3.err, stats |-> <<>>, boots |-> <<>>]
     ELSE IF r4.err # "none" THEN [err |-> r4.err, stats |-> <<>>, boots |-> <<>>]
     ELSE [err |-> "none",
           stats |-> <<r2.stats, r3.stats, r4.stats>>,
           boots |-> <<r2.boots, r3.boots, r4.boots>>]
     : r2 \in Signif5Row(arr, 2, nb),
       r3 \in Signif5Row(arr, 3, nb),
       r4 \in Signif5Row(arr, 4, nb)}

\* the labels dstat() gives the seven values (lines 342, 351)
FrameLabels == <<"Dstat", "bootmean", "bootstd", "Z", "ABBA", "BABA", "nloci">>

\* pd.DataFrame(res, ...) of the 4-taxon result: label k names value k
Frame4(stats) ==
    [l \in {FrameLabels[k] : k \in 1..Len(FrameLabels)} |->
        stats[CHOOSE k \in 1..Len(FrameLabels) : FrameLabels[k] = l]]

----------------------------------------------------------------------------
\* The inputs of dstat(): a loci file is a sequence of loci, a locus a
\* sequence of rows (sample name, bases).

MaxLoci == 2
MaxBoots == 2
MaxCovLoci == 2

Samples == <<"a", "b", "c", "d", "e">>

\* one locus: the bases of the samples a..e in order, 0 for an absent sample
Locus(bases) ==
    LET present == SelectSeq([k \in 1..Len(Samples) |-> k],
                             LAMBDA k : bases[k] # <<>>)
    IN [r \in 1..Len(present) |->
          [name |-> Samples[present[r]], seq |-> bases[present[r]]]]

Tax4 == [p1 |-> {"a"}, p2 |-> {"b"}, p3 |-> {"c", "d"}, p4 |-> {"e"}]
Tax5 == [p1 |-> {"a"}, p2 |-> {"b"}, p3 |-> {"c"}, p4 |-> {"d"}, p5 |-> {"e"}]

\* loci of one site each, and one of two sites
EngineLoci ==
    LET A == <<BaseA>>
        T == <<BaseT>>
    IN { Locus(<<A, T, T, T, A>>),
         Locus(<<T, A, T, T, A>>),
         Locus(<<A, T, T, A, A>>),
         Locus(<<T, A, A, T, A>>),
         Locus(<<A, A, A, A, A>>),
         Locus(<<A, T, <<BaseN>>, T, A>>),
         Locus(<<A, <<BaseW>>, T, T, A>>),
         Locus(<<<<BaseA, BaseT>>, <<BaseT, BaseA>>, <<BaseT, BaseT>>,
                 <<BaseT, BaseT>>, <<BaseA, BaseA>>>>),
         Locus(<<A, T, <<>>, <<>>, A>>) }

\* the same locus with different samples present, and a locus without rows
CoverageLoci ==
    LET A == <<BaseA>>
        T == <<BaseT>>
        o == <<>>
    IN { Locus(<<A, T, T, T, A>>),
         Locus(<<A, T, o, T, A>>),
         Locus(<<A, T, T, o, A>>),
         Locus(<<A, T, o, o, A>>),
         Locus(<<o, T, T, T, A>>),
         Locus(<<A, T, T, T, o>>),
         Locus(<<o, o, o, o, o>>) }

SeqsUpTo(S, n) == UNION {[1..k -> S] : k \in 1..n}

\* mindict as dstat() can be given it: nothing, one integer, or a mapping
MinNone == [kind |-> "None"]
MinInt(n) == [kind |-> "int", n |-> n]
MinMap(map) == [kind |-> "dict", map |-> map]

Mindicts(td) ==
    {MinNone, MinInt(1), MinInt(2),
     MinMap([l \in DOMAIN td |-> IF l = "p3" THEN 2 ELSE 1])}

EngineInit ==
    /\ BatchIdle
    /\ TreeIdle
    /\ e_pc = "start"
    /\ loci \in SeqsUpTo(EngineLoci, MaxLoci)
    /\ taxdict \in {Tax4, Tax5}
    /\ mindict = MinInt(1)
    /\ nboots \in 1..MaxBoots
    /\ e_arr = <<>>
    /\ e_keep = <<>>
    /\ e_raw = <<>>
    /\ e_res = <<>>
    /\ e_boots = <<>>
    /\ e_err = "none"

CoverageInit ==
    /\ BatchIdle
    /\ TreeIdle
    /\ e_pc = "start"
    /\ loci \in SeqsUpTo(CoverageLoci, MaxCovLoci)
    /\ taxdict \in {Tax4, Tax5}
    /\ mindict \in Mindicts(taxdict)
    /\ nboots = 1
    /\ e_arr = <<>>
    /\ e_keep = <<>>
    /\ e_raw = <<>>
    /\ e_res = <<>>
    /\ e_boots = <<>>
    /\ e_err = "none"

\* dstat(), line 320: arr, _ = _loci_to_arr(inarr, taxdict, mindict)
LociToArr ==
    /\ e_pc = "start"
    /\ \E m \in loci_to_arr(loci, taxdict, mindict) :
         IF m.err # "none"
         THEN /\ e_pc' = "error"
              /\ e_err' = m.err
              /\ e_raw' = m.raw
              /\ UNCHANGED <<e_arr, e_keep>>
         ELSE /\ e_pc' = "encoded"
              /\ e_arr' = m.arr
              /\ e_keep' = m.keep
              /\ e_raw' = m.raw
              /\ UNCHANGED e_err
    /\ UNCHANGED <<loci, taxdict, mindict, nboots, e_res, e_boots>>
    /\ UNCHANGED <<bvars, tvars>>

\* dstat(), lines 334-346: the engine for the number of labels
GetSignif ==
    /\ e_pc = "encoded"
    /\ \E r \in (IF Cardinality(DOMAIN taxdict) = 4
                 THEN _get_signif_4(e_arr, nboots)
                 ELSE _get_signif_5(e_arr, nboots)) :
         IF r.err # "none"
         THEN /\ e_pc' = "error"
              /\ e_err' = r.err
              /\ UNCHANGED <<e_res, e_boots>>
         ELSE /\ e_pc' = "stats"
              /\ e_res' = r.stats
              /\ e_boots' = r.boots
              /\ UNCHANGED e_err
    /\ UNCHANGED <<loci, taxdict, mindict, nboots, e_raw, e_arr, e_keep>>
    /\ UNCHANGED <<bvars, tvars>>

\* dstat(), lines 340-354: the result as a labelled frame.  The 5-taxon rows
\* hold six values and are given seven column labels, which pandas refuses.
MakeFrame ==
    /\ e_pc = "stats"
    /\ IF Cardinality(DOMAIN taxdict) = 4
       THEN /\ e_pc' = "done"
            /\ e_res' = Frame4(e_res)
            /\ UNCHANGED <<e_boots, e_err>>
       ELSE /\ e_pc' = "error"
            /\ e_err' = "ValueError"
            /\ e_res' = <<>>
            /\ e_boots' = <<>>
    /\ UNCHANGED <<loci, taxdict, mindict, nboots, e_raw, e_arr, e_keep>>
    /\ UNCHANGED <<bvars, tvars>>

\* dstat() given an ndarray (lines 321-322, arr = inarr): tensors of one site
\* per locus.  Slots 0 and 1 take the frequencies 0, 1/2 and 1; slot 2 and the
\* outgroup take the pairs below (a site with p3 = 0 or p4 = 1 adds nothing
\* to either sum, whatever slots 0 and 1 hold).
MaxArrLoci == 2

ArrFreqs == {RZero, Rat(1, 2), ROne}

ArrColumns ==
    {<<<<p1>>, <<p2>>, <<p34[1]>>, <<p34[2]>>>> :
        p1 \in ArrFreqs, p2 \in ArrFreqs,
        p34 \in {<<ROne, RZero>>, <<Rat(1, 2), RZero>>, <<Rat(1, 2), Rat(1, 2)>>}}

Tensors(nloci) == [1..nloci -> ArrColumns]

DstatInit ==
    /\ BatchIdle
    /\ TreeIdle
    /\ e_pc = "array"
    /\ loci = <<>>
    /\ taxdict = Tax4
    /\ mindict = MinInt(1)
    /\ nboots = 1
    /\ \E nloci \in 1..MaxArrLoci : e_arr \in Tensors(nloci)
    /\ e_keep = <<>>
    /\ e_raw = <<>>
    /\ e_res = <<>>
    /\ e_boots = <<>>
    /\ e_err = "none"

\* line 649: abba, baba, dstat = _prop_dstat(arr)
PropDstat ==
    /\ e_pc = "array"
    /\ e_res' = _prop_dstat(e_arr)
    /\ e_pc' = "propd"
    /\ UNCHANGED <<loci, taxdict, mindict, nboots, e_raw, e_arr, e_keep, e_boots, e_err>>
    /\ UNCHANGED <<bvars, tvars>>

DstatNext == PropDstat

SpecDstat == DstatInit /\ [][DstatNext]_vars

\* The loci of the encoder's own specification: those of the engine, and loci
\* with missing calls (N) in one or both p3 samples, in p1 and in the
\* outgroup, and a locus heterozygous (W) in p1 and p2.
MaxEncLoci == 2

EncodeLoci ==
    LET A == <<BaseA>>
        T == <<BaseT>>
        N == <<BaseN>>
        W == <<BaseW>>
    IN EngineLoci \cup
       { Locus(<<A, T, T, N, A>>),
         Locus(<<A, T, N, A, A>>),
         Locus(<<A, T, N, N, A>>),
         Locus(<<N, T, T, T, A>>),
         Locus(<<A, T, T, T, N>>),
         Locus(<<W, W, T, A, A>>) }

EncodeInit ==
    /\ BatchIdle
    /\ TreeIdle
    /\ e_pc = "start"
    /\ loci \in SeqsUpTo(EncodeLoci, MaxEncLoci)
    /\ taxdict \in {Tax4, Tax5}
    /\ mindict = MinInt(1)
    /\ nboots = 1
    /\ e_raw = <<>>
    /\ e_arr = <<>>
    /\ e_keep = <<>>
    /\ e_res = <<>>
    /\ e_boots = <<>>
    /\ e_err = "none"

EncodeNext == LociToArr

SpecEncode == EncodeInit /\ [][EncodeNext]_vars

\* masknulls on long loci: the encoder run on loci of up to MaxSites sites.
MaxTrimLoci == 2
MaxSites == 130

\* a locus file entry given column by column (a column is the calls of
\* a, b, c, d, e at one site)
Sites(cols) ==
    Locus([k \in 1..Len(Samples) |-> [i \in 1..Len(cols) |-> cols[i][k]]])

\* columns: two informative ones, one without variation, one with p1 missing
ColABBA == <<BaseA, BaseT, BaseT, BaseT, BaseA>>
ColBABA == <<BaseT, BaseA, BaseT, BaseT, BaseA>>
ColSame == <<BaseA, BaseA, BaseA, BaseA, BaseA>>
ColMiss == <<BaseN, BaseT, BaseT, BaseT, BaseA>>

\* n informative columns, alone ("dense") or each followed by a column that
\* masknulls drops ("sparse")
Informative(i) == IF i % 2 = 1 THEN ColABBA ELSE ColBABA
Dropped(i) == IF i % 2 = 1 THEN ColSame ELSE ColMiss
Pattern(n, style) ==
    IF style = "dense" THEN [i \in 1..n |-> Informative(i)]
    ELSE [i \in 1..(2 * n) |->
            IF i % 2 = 1 THEN Informative((i + 1) \div 2) ELSE Dropped(i \div 2)]

TrimCounts == {1, 2, MaxSites - 3, MaxSites - 2, MaxSites}
TrimLoci == {Sites(Pattern(n, style)) : n \in TrimCounts, style \in {"dense", "sparse"}}

TrimInit ==
    /\ BatchIdle
    /\ TreeIdle
    /\ e_pc = "start"
    /\ loci \in SeqsUpTo(TrimLoci, MaxTrimLoci)
    /\ taxdict = Tax4
    /\ mindict = MinInt(1)
    /\ nboots = 1
    /\ e_raw = <<>>
    /\ e_arr = <<>>
    /\ e_keep = <<>>
    /\ e_res = <<>>
    /\ e_boots = <<>>
    /\ e_err = "none"

TrimNext == LociToArr

SpecTrim == TrimInit /\ [][TrimNext]_vars

EngineNext == LociToArr \/ GetSignif \/ MakeFrame

SpecEngine == EngineInit /\ [][EngineNext]_vars

CoverageNext == LociToArr

SpecCoverage == CoverageInit /\ [][CoverageNext]_vars

----------------------------------------------------------------------------
\* Claims about batch() and Baba.run(), checked under SpecBatch, SpecRun and
\* SpecRunFair.

\* C1 (as claimed): whenever a poll cycle handles a handle that is ready but
\* not successful, batch() raises an error that carries that job's submission
\* index and its underlying exception; and batch() never reaches its return
\* while some submitted job has failed.
C1_FailFast ==
    /\ [][\A job \in 0..(MaxTests - 1) :
            (PollHandle(job) /\ asyncs[job].st = "failed")
            => /\ b_pc' = "raised"
               /\ err'.kind = "IPyradWarningExit"
               /\ err'.job = job
               /\ err'.exc = asyncs[job].exc]_vars
    /\ [](b_pc \in {"finish", "returned"}
            => \A i \in DOMAIN asyncs : asyncs[i].st # "failed")

\* C2 (as claimed): once batch() has left with the interrupt, abort and
\* terminate have been invoked on the pool that holds the jobs (the client
\* when one was passed, the local pool when none was).
C2_Cancellation ==
    (b_pc = "raised" /\ err.kind = "KeyboardInterrupt")
    => (abortOn = PoolKind /\ terminateOn = PoolKind)

\* C3 (as claimed): in a run over a test list that contains a test with a key
\* outside p1..p5, no job is ever submitted to the worker pool.
C3_RejectBeforeSubmit ==
    (\E i \in DOMAIN tests : ~tests[i].keysok) => nsubmitted = 0

C13_SingleWriter ==
    /\ [](\A i \in DOMAIN nwrites :
            /\ nwrites[i] <= 1
            /\ nwrites[i] = 0 => (resarr[i] = 0 /\ bootsarr[i] = 0)
            /\ nwrites[i] = 1 => /\ resarr[i] = i + 1
                                 /\ bootsarr[i] = i + 1
                                 /\ i \notin DOMAIN asyncs)
    /\ [](b_pc \in {"returned", "assigned"}
            => /\ DOMAIN nwrites = 0..(tot - 1)
               /\ \A i \in DOMAIN nwrites : nwrites[i] = 1)
    /\ [][\A i \in DOMAIN nwrites :
            (nwrites'[i] # nwrites[i] \/ resarr'[i] # resarr[i]
                \/ bootsarr'[i] # bootsarr[i])
            => /\ i \in keys
               /\ i \in DOMAIN asyncs
               /\ asyncs[i].st = "ok"
               /\ asyncs[i].job = i
               /\ i \notin DOMAIN asyncs']_vars

\* C13 witness: the job submitted second has been entered in its row while
\* the job submitted first is still outstanding.
C13_Witness ==
    /\ b_pc = "handle"
    /\ tot >= 2
    /\ nwrites[1] = 1
    /\ resarr[1] = 2
    /\ nwrites[0] = 0
    /\ 0 \in DOMAIN asyncs

\* fin = tot - len(asyncs), line 280
Fin == tot - Cardinality(DOMAIN asyncs)

\* C14: batch() is past its poll loop only when no handle is outstanding, and
\* a handle leaves asyncs only when it is ready (so a job that never becomes
\* ready keeps batch() from returning); inside the loop the completed count
\* tot - len(asyncs) stays within 0..tot and never decreases; and when the
\* caller keeps running and every submitted job becomes ready, batch()
\* eventually returns or raises, also for an empty test list.
C14_PollLoop ==
    /\ [](b_pc \in {"finish", "returned", "assigned"} => DOMAIN asyncs = {})
    /\ [][\A i \in DOMAIN asyncs :
            i \notin DOMAIN asyncs' => asyncs[i].st # "running"]_vars
    /\ [](b_pc \in {"poll", "handle", "finish"} => Fin \in 0..tot)
    /\ [][(b_pc \in {"poll", "handle"}) => (Fin' >= Fin)]_vars
    /\ <>(b_pc \in {"returned", "assigned", "raised"})

\* C14 witness: the local pool has run a batch of at least two jobs and
\* batch() has returned.
C14_Witness ==
    /\ b_pc = "returned"
    /\ ~ipyclient
    /\ tot >= 2
    /\ Fin = tot

\* C15: results_table and results_boots change only in the step of run()
\* that follows the normal return of batch(), both in that one step and to
\* what batch() returned; so when batch() has left with an exception both are
\* what they were before the call (None on a fresh object), whatever had been
\* copied into resarr and bootsarr by then.
C15_AllOrNothing ==
    /\ [][(results_table' # results_table \/ results_boots' # results_boots)
            => /\ b_pc = "returned"
               /\ b_pc' = "assigned"
               /\ results_table' = [kind |-> "table", index |-> ret.index,
                                    rows |-> ret.res]
               /\ results_boots' = [kind |-> "boots", rows |-> ret.boots]]_vars
    /\ [](b_pc # "assigned"
            => /\ results_table \in {NoResults, EarlierResults}
               /\ results_boots = results_table)

\* C15 witness: an interrupt has ended a batch on an object that had run
\* before, after the row of one job had been copied and with another job
\* outstanding.
C15_Witness ==
    /\ b_pc = "raised"
    /\ err.kind = "KeyboardInterrupt"
    /\ results_table = EarlierResults
    /\ \E i \in DOMAIN nwrites : nwrites[i] = 1
    /\ DOMAIN asyncs # {}

----------------------------------------------------------------------------
\* Claims about tree2tests(), checked under SpecTree.

\* the leaf sets of one emitted test
LeafSets(x) == [l \in Labels |-> ToSet(x[l])]

\* least common ancestor: the deepest node above both (preorder numbering)
LCA(t, a, b) ==
    LET common == AncestorsOrSelf(t, a) \cap AncestorsOrSelf(t, b)
    IN CHOOSE c \in common : \A d \in common : d <= c

\* The enumeration by hand of C6: four node-disjoint clades n1..n4 with
\* lca(n1,n2) properly below lca(n1,n2,n3), properly below lca(n1,..,n4); n1 is
\* taken under the first child of lca(n1,n2) and n2 under the second.
ManualQuartets(t) ==
    LET N == 1..Len(t)
        Disjoint(a, b) == a \notin AncestorsOrSelf(t, b) /\ b \notin AncestorsOrSelf(t, a)
    IN {[p1 |-> ToSet(get_leaf_names(t, q[1])), p2 |-> ToSet(get_leaf_names(t, q[2])),
         p3 |-> ToSet(get_leaf_names(t, q[3])), p4 |-> ToSet(get_leaf_names(t, q[4]))] :
          q \in {r \in N \X N \X N \X N :
                   /\ \A i, j \in 1..4 : i # j => Disjoint(r[i], r[j])
                   /\ LET l12 == LCA(t, r[1], r[2])
                          l123 == LCA(t, l12, r[3])
                          l1234 == LCA(t, l123, r[4])
                      IN /\ l12 # l123
                         /\ l123 # l1234
                         /\ children(t, l12)[1] \in AncestorsOrSelf(t, r[1])
                         /\ children(t, l12)[2] \in AncestorsOrSelf(t, r[2])}}

\* C6 (as claimed): on a rooted binary tree with no constraints, tree2tests
\* returns exactly the quartets of the enumeration by hand.
C6_Complete ==
    (t_pc = "done" /\ IsBinary(newick) /\ constraint_dict = <<>>)
    => /\ t_out.err = "none"
       /\ {LeafSets(x) : x \in ToSet(t_out.tests)} = ManualQuartets(newick)

\* C7 (as claimed): a node with other than two children at the p1/p2 split is
\* skipped; the enumeration never ends in an error.
C7_PolytomySkipped ==
    t_pc = "done" => t_out.err = "none"

\* C9: on a rooted binary tree, under every constraint dict and mode, no two
\* entries of the returned list have the same four leaf sets.
C9_NoDuplicates ==
    (t_pc = "done" /\ IsBinary(newick))
    => \A i, j \in 1..Len(t_out.tests) :
         i # j => LeafSets(t_out.tests[i]) # LeafSets(t_out.tests[j])

\* C9 witness: a binary tree, a constraint in subset mode, several tests returned.
C9_Witness ==
    /\ t_pc = "done"
    /\ IsBinary(newick)
    /\ constraint_dict # <<>>
    /\ ~constraint_exact
    /\ Len(t_out.tests) >= 3

\* what the constraint of a label asks of a set of leaf names
Satisfies(names, const, exact) ==
    \/ const = {}
    \/ exact /\ names = const
    \/ ~exact /\ names \subseteq const

\* C18: test_constraint passes a node for a label exactly when the label has
\* no constraint, or (exact mode) the node's leaf names are the constraint, or
\* (subset mode) they are all in the constraint; and every test tree2tests
\* emits has, for each of the four labels, leaf names that satisfy the
\* label's constraint.
C18_ConstraintTest ==
    /\ \A node \in 1..Len(newick) : \A tip \in Labels :
         test_constraint(newick, node, Cdict(constraint_dict), tip, constraint_exact)
            <=> Satisfies(ToSet(get_leaf_names(newick, node)),
                          Cdict(constraint_dict)[tip], constraint_exact)
    /\ (t_pc = "done")
         => \A i \in 1..Len(t_out.tests) : \A tip \in Labels :
              Satisfies(LeafSets(t_out.tests[i])[tip],
                        Cdict(constraint_dict)[tip], constraint_exact)

\* C18 witness: under a subset constraint a test has been emitted whose leaf
\* set for the constrained label is a proper part of the constraint, in a
\* tree that also has a node reaching beyond the constraint.
C18_Witness ==
    /\ t_pc = "done"
    /\ ~constraint_exact
    /\ \E tip \in DOMAIN constraint_dict :
         /\ \E i \in 1..Len(t_out.tests) :
              /\ LeafSets(t_out.tests[i])[tip] \subseteq constraint_dict[tip]
              /\ LeafSets(t_out.tests[i])[tip] # constraint_dict[tip]
         /\ \E node \in 1..Len(newick) :
              /\ ToSet(get_leaf_names(newick, node)) \cap constraint_dict[tip] # {}
              /\ ~(ToSet(get_leaf_names(newick, node)) \subseteq constraint_dict[tip])

----------------------------------------------------------------------------
\* Claims about dstat() and its parts, checked under SpecEngine, SpecCoverage,
\* SpecDstat, SpecEncode and SpecTrim.

\* the coverage requirement of a label as the specification words it
Requirement(md, label) ==
    IF md.kind = "None" THEN 1
    ELSE IF md.kind = "int" THEN md.n
    ELSE md.map[label]

\* a locus is retained: every label has enough of its samples among the rows
Retained(locus, td, md) ==
    \A label \in DOMAIN td :
        Cardinality(td[label] \cap {locus[r].name : r \in 1..Len(locus)})
            >= Requirement(md, label)

NumRetained == Cardinality({l \in 1..Len(loci) : Retained(loci[l], taxdict, mindict)})

\* C5: when the coverage filter retains no locus of a 4-taxon test, the
\* pipeline (_loci_to_arr with masknulls, then _get_signif_4) never enters an
\* error state, and what it reports is D = 0, Z = 0, ABBA = 0, BABA = 0 and
\* nloci = 0, for every nboots >= 1.
C5_ZeroLociHandled ==
    (Cardinality(DOMAIN taxdict) = 4 /\ NumRetained = 0 /\ e_pc # "start")
        => /\ e_pc # "error"
           /\ e_pc = "done" =>
                /\ e_res["Dstat"] = RZero
                /\ e_res["Z"] = RZero
                /\ e_res["ABBA"] = RZero
                /\ e_res["BABA"] = RZero
                /\ e_res["nloci"] = RZero

\* C8: once _loci_to_arr has run it has returned, its mask has one entry per
\* input locus, entry l is true iff locus l is retained (every label has at
\* least its required number of samples among the rows), and the tensor has
\* as many loci as are retained.
C8_CoverageFilter ==
    (e_pc # "start")
        => /\ e_pc = "encoded"
           /\ Len(e_keep) = Len(loci)
           /\ \A l \in 1..Len(loci) :
                e_keep[l] <=> Retained(loci[l], taxdict, mindict)
           /\ Len(e_arr) = NumRetained

\* Z as the specification defines it from the replicates' mean and deviation
ZOf(bootmean, bootstd) ==
    IF bootstd = Sqrt(RZero) THEN RZero ELSE Over(RAbs(bootmean), bootstd)

\* C10: the Z that _get_signif_4 returns, and the Z of each of the three rows
\* that _get_signif_5 returns, is |bootstrap mean| / bootstrap std, and 0 when
\* the bootstrap std is 0.
C10_ZConvention ==
    (e_pc = "stats")
        => IF Cardinality(DOMAIN taxdict) = 4
           THEN e_res[4] = ZOf(e_res[2], e_res[3])
           ELSE \A row \in 1..3 :
                  e_res[row][6] = ZOf(e_res[row][2], e_res[row][3])

\* the tensor with the population slots 0 and 1 exchanged at every site
Swap01(arr) ==
    [loc \in 1..Len(arr) |->
        <<arr[loc][2], arr[loc][1], arr[loc][3], arr[loc][4]>>]

\* C11: exchanging slots 0 and 1 of the tensor exchanges the ABBA and BABA
\* sums that _prop_dstat returns and negates D; when ABBA + BABA is zero both
\* D values are 0.
C11_Antisymmetry ==
    (e_pc = "propd")
        => LET swapped == _prop_dstat(Swap01(e_arr))
           IN /\ swapped[1] = e_res[2]
              /\ swapped[2] = e_res[1]
              /\ swapped[3] = RNeg(e_res[3])
              /\ (RAdd(e_res[1], e_res[2]) = RZero)
                    => (e_res[3] = RZero /\ swapped[3] = RZero)

\* a tensor of two loci with fractional frequencies, ABBA # BABA, both nonzero
C11_Witness ==
    /\ e_pc = "propd"
    /\ Len(e_arr) = 2
    /\ e_res[1] # RZero
    /\ e_res[2] # RZero
    /\ e_res[1] # e_res[2]
    /\ e_res[3].d # 1

\* the retained loci, in input order
KeptLoci == SelectSeq(loci, LAMBDA locus : Retained(locus, taxdict, mindict))

\* the samples whose calls make up slot `slot` (counted from 1) of the tensor
SlotSamples(td, slot) ==
    IF Cardinality(DOMAIN td) = 4
    THEN td[AllLabels[slot]]
    ELSE IF slot = 5 THEN td["p3"] \cup td["p4"]
    ELSE IF slot = 6 THEN td["p5"]
    ELSE td[AllLabels[slot]]

NumSlots(td) == IF Cardinality(DOMAIN td) = 4 THEN 4 ELSE 6

\* the length of a locus: the number of bases of its rows
NumSites(locus) == Len(locus[1].seq)

\* every call of the samples at the site is N or -
AllMissing(locus, samples, site) ==
    \A r \in 1..Len(locus) :
        locus[r].name \in samples => locus[r].seq[site] \in {78, 45}

\* C12: in the tensor handed to masknulls, slot by slot and site by site of
\* every retained locus, the value is 9 exactly when every call of the slot's
\* samples is missing there; and no site at which some slot has only missing
\* calls is among the sites masknulls keeps.
C12_Sentinel ==
    (e_pc = "encoded")
        => \A k \in 1..Len(KeptLoci) :
             \A site \in 1..NumSites(KeptLoci[k]) :
               /\ \A slot \in 1..NumSlots(taxdict) :
                    (e_raw[k][slot][site] = Sentinel)
                        <=> AllMissing(KeptLoci[k], SlotSamples(taxdict, slot), site)
               /\ (\E slot \in 1..NumSlots(taxdict) :
                        AllMissing(KeptLoci[k], SlotSamples(taxdict, slot), site))
                    => \A j \in 1..Len(InformativeSites(e_raw[k])) :
                            InformativeSites(e_raw[k])[j] # site

\* the value _reffreq2 gives the samples of a set at the sites of a locus,
\* against the outgroup of the test, before any masking
Unmasked(locus, td, samples) ==
    LET ks == SortedKeys(td)
    IN _reffreq2(reftrick(RowsOf(locus, td[ks[Len(ks)]]), GETCONS2),
                 RowsOf(locus, samples), GETCONS2)

\* C16: in a 5-taxon tensor, at every site of every retained locus, the p3
\* slot is zero where the unmasked p4 value is not zero and the p4 slot is
\* zero where the unmasked p3 value is not zero (each slot keeps its unmasked
\* value elsewhere), so never both are nonzero and a site nonzero in both is
\* zero in both; the merged slot is the frequency over the samples of p3 and
\* p4 together.
C16_ReciprocalMasking ==
    (e_pc \in {"encoded", "error"} /\ taxdict = Tax5)
        => \A k \in 1..Len(KeptLoci) :
             LET x == Unmasked(KeptLoci[k], taxdict, taxdict["p3"])
                 y == Unmasked(KeptLoci[k], taxdict, taxdict["p4"])
                 xy == Unmasked(KeptLoci[k], taxdict, taxdict["p3"] \cup taxdict["p4"])
             IN /\ Len(e_raw) = Len(KeptLoci)
                /\ \A site \in 1..NumSites(KeptLoci[k]) :
                     /\ y[site] # RZero => e_raw[k][3][site] = RZero
                     /\ x[site] # RZero => e_raw[k][4][site] = RZero
                     /\ y[site] = RZero => e_raw[k][3][site] = x[site]
                     /\ x[site] = RZero => e_raw[k][4][site] = y[site]
                     /\ ~(e_raw[k][3][site] # RZero /\ e_raw[k][4][site] # RZero)
                     /\ e_raw[k][5][site] = xy[site]

\* C16 witness: a 5-taxon locus has been encoded with a site at which p3 and
\* p4 both carry the derived allele: both slots are zero there and the merged
\* slot is one.
C16_Witness ==
    /\ e_pc = "encoded"
    /\ taxdict = Tax5
    /\ \E k \in 1..Len(KeptLoci) : \E site \in 1..NumSites(KeptLoci[k]) :
         /\ Unmasked(KeptLoci[k], taxdict, taxdict["p3"])[site] = ROne
         /\ Unmasked(KeptLoci[k], taxdict, taxdict["p4"])[site] = ROne
         /\ e_raw[k][3][site] = RZero
         /\ e_raw[k][4][site] = RZero
         /\ e_raw[k][5][site] = ROne

\* the number of informative columns of each locus of the unpruned tensor
InformativeCounts == [k \in 1..Len(e_raw) |-> Len(InformativeSites(e_raw[k]))]

\* C17: the pruned tensor has as many sites as the locus with the most
\* informative columns has informative columns, and holds for each locus its
\* informative columns in their order from the left, then zeros: no
\* informative column is missing, however many a locus has.
C17_SiteTrimming ==
    (e_pc = "encoded")
        => LET top == Max({0} \cup {InformativeCounts[k] : k \in 1..Len(e_raw)})
           IN /\ Len(e_arr) = Len(e_raw)
              /\ \A k \in 1..Len(e_arr) : \A slot \in 1..Len(e_arr[k]) :
                   /\ Len(e_arr[k][slot]) = top
                   /\ \A j \in 1..Len(e_arr[k][slot]) :
                        e_arr[k][slot][j] =
                            IF j <= InformativeCounts[k]
                            THEN e_raw[k][slot][InformativeSites(e_raw[k])[j]]
                            ELSE RZero

\* the sites of a locus of the tensor that hold no sentinel
SentinelFreeSites(locarr) ==
    SelectSeq([i \in 1..Len(locarr[1]) |-> i],
              LAMBDA site : \A k \in 1..Len(locarr) : locarr[k][site] # Sentinel)

\* the tensor with the sites that hold a sentinel left out, nothing else
SentinelFree(arr) ==
    [loc \in 1..Len(arr) |->
        [k \in 1..Len(arr[loc]) |->
            [j \in 1..Len(SentinelFreeSites(arr[loc])) |->
                arr[loc][k][SentinelFreeSites(arr[loc])[j]]]]]

\* C19: in a 4-slot tensor every site without sentinel that masknulls drops
\* adds nothing to the ABBA sum and nothing to the BABA sum, so ABBA, BABA
\* and D of the pruned tensor are those of all sentinel-free sites of the
\* unpruned tensor.
C19_PruningPreserves ==
    (e_pc = "encoded" /\ taxdict = Tax4)
        => /\ \A k \in 1..Len(e_raw) :
                \A j \in 1..Len(SentinelFreeSites(e_raw[k])) :
                   LET site == SentinelFreeSites(e_raw[k])[j]
                   IN (\A i \in 1..Len(InformativeSites(e_raw[k])) :
                            InformativeSites(e_raw[k])[i] # site)
                        => /\ AbbaAt(e_raw[k], site) = RZero
                           /\ BabaAt(e_raw[k], site) = RZero
           /\ _prop_dstat(e_arr) = _prop_dstat(SentinelFree(e_raw))

====
